---- MODULE Spec2Model ----
(***************************************************************************)
(* Model of edb/pgsql/compiler/group.py: the lowering of an IR GROUP       *)
(* statement into a relational query tree.                                 *)
(*                                                                         *)
(*  - FindAggregatingUses (the aggregating-use analyzer) is a recursive    *)
(*    operator over IR trees;                                              *)
(*  - compile_grouping_atom / compile_grouping_el / _compile_grouping_value*)
(*    are recursive operators over grouping-element trees;                 *)
(*  - _compile_group is a state machine whose program counter walks the    *)
(*    body of the function top to bottom.                                  *)
(***************************************************************************)
EXTENDS Integers, Sequences, FiniteSets, TLC

VARIABLES
    stmt,        \* the irast.GroupStmt being compiled
    pc,          \* position in _compile_group
    group_uses,  \* visitor.sightings (line 271)
    packed,      \* local `packed` (line 336)
    grouprel,    \* the group relation (groupctx.rel)
    query,       \* the parent query (ctx.stmt)
    subqueries,  \* sub-queries produced so far, by kind
    levels,      \* compiler context levels created so far
    calls,       \* delegated clause-compiler calls, in order
    err          \* the fatal internal error raised, if any

vars == <<stmt, pc, group_uses, packed, grouprel, query, subqueries,
          levels, calls, err>>

(***************************************************************************)
(* Bounds.                                                                 *)
(***************************************************************************)
MaxDepth == 2
MaxKeys == 2
MaxArgs == 2

(***************************************************************************)
(* IR nodes.  Every node is a record with a `kind`.                        *)
(***************************************************************************)
None == [kind |-> "None"]

SetOfType == "SetOfType"
SingletonType == "SingletonType"

Set(path_id, rptr, shape, expr) ==
    [kind |-> "Set", path_id |-> path_id, rptr |-> rptr, shape |-> shape,
     expr |-> expr]

Pointer(source) == [kind |-> "Pointer", source |-> source]

\* node_kind is "FunctionCall" or "OperatorCall"
Call(node_kind, func_sql_function, typemod, args, params_typemods) ==
    [kind |-> "Call", node_kind |-> node_kind,
     func_sql_function |-> func_sql_function, typemod |-> typemod,
     args |-> args, params_typemods |-> params_typemods]

SelectStmt(result, where, orderby, limit, offset, materialized_sets) ==
    [kind |-> "SelectStmt", result |-> result, where |-> where,
     orderby |-> orderby, limit |-> limit, offset |-> offset,
     materialized_sets |-> materialized_sets,
     bindings |-> <<>>, iterator_stmt |-> None]

Tuple(elements) == [kind |-> "Tuple", elements |-> elements]

\* a GroupStmt's orderby, when it is not None: a list of sort expressions
SortExprs(exprs) == [kind |-> "SortExprs", exprs |-> exprs]

(***************************************************************************)
(* Path ids.                                                               *)
(***************************************************************************)
GroupBindingPathId == <<"group_binding", 0, 0>>
SubjectPathId == <<"subject", 0, 0>>
GroupingBindingPathId == <<"grouping_binding", 0, 0>>
ConstPathId == <<"const", 0, 0>>
UsingPathId(i) == <<"using", i, 0>>
ExprPathId(b, d) == <<"expr", b, d>>

\* Alias names are sequences of characters, so that split('~') is modelled.
KeyNames == << <<"a">>, <<"b", "~", "1">>, <<"c">>, <<"d", "~", "2">>,
               <<"e">> >>

Keys == 1..MaxKeys

(***************************************************************************)
(* FindAggregatingUses.  The visitor's mutable field self.aggregate is     *)
(* saved and restored around every change, so it is passed down as the     *)
(* parameter `aggregate`; the result is the set added to self.sightings.   *)
(***************************************************************************)
RECURSIVE visit(_, _, _, _)
RECURSIVE visit_container(_, _, _, _)

visit_container(nodes, target, to_skip, aggregate) ==
    UNION {visit(nodes[i], target, to_skip, aggregate) : i \in DOMAIN nodes}

\* process_call testing the call's own typemod where the parameter's is
\* meant
process_call_on_return_typemod(node, ir_set, target, to_skip, aggregate) ==
    LET returns_set == node.typemod = SetOfType
        calls_sql_func == node.node_kind = "FunctionCall"
                          /\ node.func_sql_function
        n == IF Len(node.args) < Len(node.params_typemods)
             THEN Len(node.args) ELSE Len(node.params_typemods)
        arg_aggregate(i) ==
            IF returns_set THEN None
            ELSE IF calls_sql_func /\ node.typemod = SetOfType
                 THEN ir_set
                 ELSE aggregate
    IN UNION {visit(node.args[i], target, to_skip, arg_aggregate(i))
                : i \in 1..n}

\* lines 112-136
process_call(node, ir_set, target, to_skip, aggregate) ==
    LET returns_set == node.typemod = SetOfType
        calls_sql_func == node.node_kind = "FunctionCall"
                          /\ node.func_sql_function
        n == IF Len(node.args) < Len(node.params_typemods)
             THEN Len(node.args) ELSE Len(node.params_typemods)
        arg_aggregate(i) ==
            IF returns_set THEN None
            ELSE IF calls_sql_func /\ node.params_typemods[i] = SetOfType
                 THEN ir_set
                 ELSE aggregate
    IN UNION {visit(node.args[i], target, to_skip, arg_aggregate(i))
                : i \in 1..n}

\* visit_Set without the skip-set test
visit_Set_no_skip(node, target, to_skip, aggregate) ==
    IF node.path_id = target THEN {aggregate}
    ELSE visit(node.rptr, target, to_skip, aggregate)
         \cup visit_container(node.shape, target, to_skip, aggregate)
         \cup (IF node.expr.kind = "Call"
               THEN process_call(node.expr, node, target, to_skip, aggregate)
               ELSE visit(node.expr, target, to_skip, aggregate))

\* lines 94-110
visit_Set(node, target, to_skip, aggregate) ==
    IF node.path_id \in to_skip THEN {}
    ELSE IF node.path_id = target THEN {aggregate}
    ELSE visit(node.rptr, target, to_skip, aggregate)
         \cup visit_container(node.shape, target, to_skip, aggregate)
         \cup (IF node.expr.kind = "Call"
               THEN process_call(node.expr, node, target, to_skip, aggregate)
               ELSE visit(node.expr, target, to_skip, aggregate))

\* NodeVisitor.generic_visit with skip_hidden and extra_skips (lines 45-46):
\* every non-hidden child field except materialized_sets.
generic_visit(node, target, to_skip, aggregate) ==
    CASE node.kind = "Pointer" ->
            visit(node.source, target, to_skip, aggregate)
      [] node.kind = "Tuple" ->
            visit_container(node.elements, target, to_skip, aggregate)
      [] node.kind = "SelectStmt" ->
            visit(node.result, target, to_skip, aggregate)
            \cup visit(node.where, target, to_skip, aggregate)
            \cup visit_container(node.orderby, target, to_skip, aggregate)
            \cup visit(node.limit, target, to_skip, aggregate)
            \cup visit(node.offset, target, to_skip, aggregate)
            \cup visit_container(node.bindings, target, to_skip, aggregate)
            \cup visit(node.iterator_stmt, target, to_skip, aggregate)
      [] OTHER -> {}

\* visit_Stmt without the reset under ORDER/LIMIT/OFFSET
visit_Stmt_no_reset(node, target, to_skip, aggregate) ==
    visit_container(node.bindings, target, to_skip, aggregate)
    \cup (IF node.iterator_stmt # None
          THEN visit(node.iterator_stmt, target, to_skip, aggregate)
          ELSE {})
    \cup visit(node.result, target, to_skip, aggregate)
    \cup generic_visit(node, target, to_skip, aggregate)

\* lines 57-92
visit_Stmt(node, target, to_skip, aggregate) ==
    LET inner == IF node.kind = "SelectStmt"
                    /\ (node.orderby # <<>> \/ node.limit # None
                        \/ node.offset # None \/ node.materialized_sets)
                 THEN None
                 ELSE aggregate
    IN visit_container(node.bindings, target, to_skip, inner)
       \cup (IF node.iterator_stmt # None
             THEN visit(node.iterator_stmt, target, to_skip, inner)
             ELSE {})
       \cup visit(node.result, target, to_skip, inner)
       \cup generic_visit(node, target, to_skip, inner)

\* NodeVisitor.visit: dispatch on the node's class
visit(node, target, to_skip, aggregate) ==
    CASE node.kind = "None" -> {}
      [] node.kind = "Set" -> visit_Set(node, target, to_skip, aggregate)
      [] node.kind = "SelectStmt" ->
            visit_Stmt(node, target, to_skip, aggregate)
      [] OTHER -> generic_visit(node, target, to_skip, aggregate)

\* lines 48-55 and 265-271: a fresh visitor (aggregate = None, no
\* sightings) run on one expression
FindAggregatingUses(target, to_skip, node) ==
    visit(node, target, to_skip, None)

(***************************************************************************)
(* qlast grouping elements and the pgast nodes they compile to.            *)
(***************************************************************************)
ObjectRef(name) == [kind |-> "ObjectRef", name |-> name]
GroupingIdentList(elements) ==
    [kind |-> "GroupingIdentList", elements |-> elements]
GroupingSimple(element) == [kind |-> "GroupingSimple", element |-> element]
GroupingOperation(oper, elements) ==
    [kind |-> "GroupingOperation", oper |-> oper, elements |-> elements]
GroupingSets(sets) == [kind |-> "GroupingSets", sets |-> sets]

\* pgast.GroupingOperation; a plain list has no operation (None in the
\* source, the empty string here, so that operations compare as strings)
NoOperation == ""
pgGroupingOperation(operation, args) ==
    [kind |-> "pgast.GroupingOperation", operation |-> operation,
     args |-> args]

\* a raised exception, propagated to the caller
AssertionError == [kind |-> "AssertionError"]
KeyError == [kind |-> "KeyError"]
Raised(x) ==
    "kind" \in DOMAIN x /\ x.kind \in {"AssertionError", "KeyError"}

\* the first exception raised while building a list, if any
FirstRaised(xs) ==
    LET bad == {i \in DOMAIN xs : Raised(xs[i])}
    IN xs[CHOOSE i \in bad : \A j \in bad : i <= j]

AnyRaised(xs) == \E i \in DOMAIN xs : Raised(xs[i])

\* stmt.using[name]: `using` is an insertion-ordered mapping, kept as a
\* sequence of [name, value] entries
using_lookup(using, name) ==
    IF \E i \in DOMAIN using : using[i].name = name
    THEN using[CHOOSE i \in DOMAIN using : using[i].name = name].value
    ELSE KeyError

\* pathctx.get_path_var(rel, path_id, aspect='value'): the reference to the
\* relation's value column for path_id
get_path_var(rel, path_id, aspect) ==
    [kind |-> "PathVar", rel |-> rel, path_id |-> path_id, aspect |-> aspect]

\* lines 139-153
RECURSIVE compile_grouping_atom(_, _, _)
compile_grouping_atom(el, using, rel) ==
    IF el.kind = "GroupingIdentList"
    THEN LET args == [i \in DOMAIN el.elements |->
                        compile_grouping_atom(el.elements[i], using, rel)]
         IN IF AnyRaised(args) THEN FirstRaised(args)
            ELSE pgGroupingOperation(NoOperation, args)
    ELSE IF el.kind # "ObjectRef" THEN AssertionError
    ELSE LET alias_set == using_lookup(using, el.name)
         IN IF Raised(alias_set) THEN alias_set
            ELSE get_path_var(rel, alias_set.path_id, "value")

RECURSIVE compile_grouping_el(_, _, _)

\* compile_grouping_el losing the operator of ROLLUP and CUBE
compile_grouping_el_no_oper(el, using, rel) ==
    IF el.kind = "GroupingSets"
    THEN LET args == [i \in DOMAIN el.sets |->
                        compile_grouping_el(el.sets[i], using, rel)]
         IN IF AnyRaised(args) THEN FirstRaised(args)
            ELSE pgGroupingOperation("GROUPING SETS", args)
    ELSE IF el.kind = "GroupingOperation"
    THEN LET args == [i \in DOMAIN el.elements |->
                        compile_grouping_atom(el.elements[i], using, rel)]
         IN IF AnyRaised(args) THEN FirstRaised(args)
            ELSE pgGroupingOperation(NoOperation, args)
    ELSE IF el.kind = "GroupingSimple"
    THEN compile_grouping_atom(el.element, using, rel)
    ELSE AssertionError

\* lines 156-174
compile_grouping_el(el, using, rel) ==
    IF el.kind = "GroupingSets"
    THEN LET args == [i \in DOMAIN el.sets |->
                        compile_grouping_el(el.sets[i], using, rel)]
         IN IF AnyRaised(args) THEN FirstRaised(args)
            ELSE pgGroupingOperation("GROUPING SETS", args)
    ELSE IF el.kind = "GroupingOperation"
    THEN LET args == [i \in DOMAIN el.elements |->
                        compile_grouping_atom(el.elements[i], using, rel)]
         IN IF AnyRaised(args) THEN FirstRaised(args)
            ELSE pgGroupingOperation(el.oper, args)
    ELSE IF el.kind = "GroupingSimple"
    THEN compile_grouping_atom(el.element, using, rel)
    ELSE AssertionError

(***************************************************************************)
(* _compile_grouping_value.                                                *)
(***************************************************************************)
\* name.split('~')[0]: the characters before the first '~'
RECURSIVE split_tilde_0(_)
split_tilde_0(name) ==
    IF name = <<>> \/ Head(name) = "~" THEN <<>>
    ELSE <<Head(name)>> \o split_tilde_0(Tail(name))

\* str(n) for n >= 0: the decimal digits, most significant first
RECURSIVE str(_)
str(n) == IF n < 10 THEN <<n>> ELSE str(n \div 10) \o <<n % 10>>

\* 1 << k
RECURSIVE shl1(_)
shl1(k) == IF k = 0 THEN 1 ELSE 2 * shl1(k - 1)

\* desugar_group.collect_grouping_atoms: the names referenced by the `by`
\* elements, without repetition, ordered as in `using`; an unknown element
\* shape fails its assertion
RECURSIVE atom_names(_)
atom_names(el) ==
    IF el.kind = "GroupingIdentList"
    THEN UNION {atom_names(el.elements[i]) : i \in DOMAIN el.elements}
    ELSE IF el.kind = "ObjectRef" THEN {el.name}
    ELSE {}

RECURSIVE atom_known(_)
atom_known(el) ==
    IF el.kind = "GroupingIdentList"
    THEN \A i \in DOMAIN el.elements : atom_known(el.elements[i])
    ELSE el.kind = "ObjectRef"

RECURSIVE el_names(_)
el_names(el) ==
    IF el.kind = "GroupingSets"
    THEN UNION {el_names(el.sets[i]) : i \in DOMAIN el.sets}
    ELSE IF el.kind = "GroupingOperation"
    THEN UNION {atom_names(el.elements[i]) : i \in DOMAIN el.elements}
    ELSE IF el.kind = "GroupingSimple" THEN atom_names(el.element)
    ELSE {}

RECURSIVE el_known(_)
el_known(el) ==
    IF el.kind = "GroupingSets"
    THEN \A i \in DOMAIN el.sets : el_known(el.sets[i])
    ELSE IF el.kind = "GroupingOperation"
    THEN \A i \in DOMAIN el.elements : atom_known(el.elements[i])
    ELSE IF el.kind = "GroupingSimple" THEN atom_known(el.element)
    ELSE FALSE

RECURSIVE ordered_names(_, _)
ordered_names(using, names) ==
    IF using = <<>> THEN <<>>
    ELSE (IF Head(using).name \in names THEN <<Head(using).name>>
          ELSE <<>>) \o ordered_names(Tail(using), names)

collect_grouping_atoms(by, using) ==
    IF \E i \in DOMAIN by : ~el_known(by[i]) THEN AssertionError
    ELSE [kind |-> "OrderedSet",
          names |-> ordered_names(
              using, UNION {el_names(by[i]) : i \in DOMAIN by})]

\* pgast expression nodes
StringConstant(val) == [kind |-> "StringConstant", val |-> val]
NullConstant == [kind |-> "NullConstant"]
LiteralExpr(expr) == [kind |-> "LiteralExpr", expr |-> expr]
ColumnRef(name) == [kind |-> "ColumnRef", name |-> name]
ArrayExpr(elements) == [kind |-> "ArrayExpr", elements |-> elements]
FuncCall(name, args) == [kind |-> "FuncCall", name |-> name, args |-> args]
ResTarget(name, val) == [kind |-> "ResTarget", name |-> name, val |-> val]

\* the mask counted from the other end
mask_of_reversed(n, i) == shl1(i)

\* line 220
mask_of(n, i) == shl1(n - i - 1)

\* lines 223-237: (CASE (g & mask) WHEN 0 THEN name ELSE NULL END)
case_expr(grouping_ref, mask, name) ==
    [kind |-> "CaseExpr",
     arg |-> [kind |-> "Expr", name |-> "&", lexpr |-> grouping_ref,
              rexpr |-> LiteralExpr(str(mask))],
     args |-> << [kind |-> "CaseWhen", expr |-> LiteralExpr(str(0)),
                  result |-> StringConstant(name)] >>,
     defresult |-> NullConstant]

\* lines 192-246, the general path.  `rel` is ctx.rel, the group relation.
\* Python's enumerate() counts from 0; sequences here count from 1.
grouping_value_query(s, rel, names) ==
    LET n == Len(names)
        using == [i \in 1..n |-> using_lookup(s.using, names[i])]
        args == [i \in 1..n |->
                    get_path_var(rel, using[i].path_id, "value")]
        grouping_alias == "g"
        grouping_call == FuncCall("grouping", args)
        subq == [kind |-> "pgast.SelectStmt", from_clause |-> <<>>,
                 target_list |-> <<ResTarget(grouping_alias,
                                             grouping_call)>>]
        grouping_ref == ColumnRef(grouping_alias)
        els == [i \in 1..n |->
                   case_expr(grouping_ref, mask_of(n, i - 1),
                             split_tilde_0(names[i]))]
        val == FuncCall("array_remove", <<ArrayExpr(els), NullConstant>>)
    IN IF AnyRaised(using) THEN FirstRaised(using)
       ELSE [kind |-> "pgast.SelectStmt",
             from_clause |-> << [kind |-> "RangeSubselect",
                                 subquery |-> subq] >>,
             target_list |-> <<ResTarget("", val)>>]

\* _compile_grouping_value taking the fast path on the size of `using`
_compile_grouping_value_by_using(s, rel) ==
    LET used_args == collect_grouping_atoms(s.by, s.using)
    IN IF Raised(used_args) THEN used_args
       ELSE IF Len(s.using) = 1
       THEN ArrayExpr(<<StringConstant(split_tilde_0(used_args.names[1]))>>)
       ELSE grouping_value_query(s, rel, used_args.names)

\* lines 177-190, then the general path
_compile_grouping_value(s, rel) ==
    LET used_args == collect_grouping_atoms(s.by, s.using)
    IN IF Raised(used_args) THEN used_args
       ELSE IF Len(used_args.names) = 1
       THEN ArrayExpr(<<StringConstant(split_tilde_0(used_args.names[1]))>>)
       ELSE grouping_value_query(s, rel, used_args.names)

(***************************************************************************)
(* Relations, path-binding registries and compiler context levels.         *)
(***************************************************************************)
\* a relation under construction (pgast.Query): its FROM list, its path
\* registries (one map per flavor and kind of binding), its path scope
\* (the mask) and its clauses
NewRel(name) ==
    [name |-> name, from_clause |-> <<>>, registry |-> {},
     path_scope |-> {}, group_clause |-> <<>>, where_clause |-> <<>>,
     sort_clause |-> <<>>, target_list |-> <<>>]

\* rel.<map>[path_id, aspect] = val
put(rel, map, path_id, aspect, val) ==
    LET key == <<map, path_id, aspect>>
    IN [rel EXCEPT !.registry =
            {b \in @ : b.key # key} \cup {[key |-> key, val |-> val]}]

\* pathctx.put_path_var(rel, path_id, var, aspect, flavor)
put_path_var(rel, path_id, var, aspect, flavor) ==
    put(rel, IF flavor = "packed" THEN "packed_path_namespace"
             ELSE "path_namespace", path_id, aspect, var)

\* pathctx.put_path_rvar(rel, path_id, rvar, aspect, flavor)
put_path_rvar(rel, path_id, rvar, aspect, flavor) ==
    put(rel, IF flavor = "packed" THEN "packed_path_rvar_map"
             ELSE "path_rvar_map", path_id, aspect, rvar)

\* relctx.rvar_for_rel(rel, lateral=True)
rvar_for_rel(rel) ==
    [kind |-> "RangeSubselect", subquery |-> rel.name, lateral |-> TRUE]

\* relctx.rel_join(query, rvar)
rel_join(rel, rvar) ==
    [rel EXCEPT !.from_clause = Append(@, [rvar |-> rvar, via |-> "join"])]

\* relctx.include_rvar(rel, rvar, path_id, flavor, update_mask, aspects):
\* the rvar joins the FROM list, is registered for path_id under each
\* aspect, and path_id enters the mask only when update_mask
include_rvar(rel, rvar, path_id, flavor, update_mask) ==
    LET joined == IF \E i \in DOMAIN rel.from_clause :
                        rel.from_clause[i].rvar = rvar
                  THEN rel
                  ELSE [rel EXCEPT !.from_clause =
                            Append(@, [rvar |-> rvar, via |-> "include"])]
        bound == put_path_rvar(joined, path_id, rvar, "value", flavor)
    IN IF update_mask
       THEN [bound EXCEPT !.path_scope = @ \cup {path_id}]
       ELSE bound

Lookup(rel, map, path_id, aspect) ==
    {b.val : b \in {c \in rel.registry : c.key = <<map, path_id, aspect>>}}

\* a compiler context level: ctx.new() / ctx.subrel() make a child whose
\* fields start as copies of the parent's and are its own from then on
NewLevel(prev, prevlevel) ==
    [prev |-> prev, volatility_ref |-> prevlevel.volatility_ref]

ctx_new(lv, prev) == Append(lv, NewLevel(prev, lv[prev]))

\* clauses.setup_iterator_volatility(iterator, ctx=ctx): ctx.volatility_ref
\* gains a reference to the iterator's path
setup_iterator_volatility(lv, iterator, ctx) ==
    [lv EXCEPT ![ctx].volatility_ref = @ \cup {iterator.path_id}]

\* the levels compile_group starts _compile_group with: the parent's and
\* the ctx.substmt() child (lines 433-434)
ParentCtx == 1
Ctx == 2

(***************************************************************************)
(* The statements explored.                                                *)
(***************************************************************************)
SeqsOf(S, lo, hi) == UNION {[1..n -> S] : n \in lo..hi}

\* the group binding, a constant, and the reference g.<key i>, whose path
\* id is that of the i-th `using` value and whose source is the binding
GroupRef == Set(GroupBindingPathId, None, <<>>, None)
Const == Set(ConstPathId, None, <<>>, None)
KeyRef(i) == Set(UsingPathId(i), Pointer(GroupRef), <<>>, None)

\* count(x)-like: a SQL aggregate function with one SET OF parameter
Agg(pid, x) ==
    Set(pid, None, <<>>,
        Call("FunctionCall", TRUE, SingletonType, <<x>>, <<SetOfType>>))

CallShapes ==
    [w : {"call"}, node_kind : {"FunctionCall", "OperatorCall"},
     sql : BOOLEAN, typemod : {SetOfType, SingletonType},
     ptm : {SetOfType, SingletonType}]
SelectShapes ==
    [w : {"select"},
     flag : {"plain", "orderby", "limit", "offset", "materialized_sets"},
     pos : {"result", "where"}]
OtherShapes == {[w |-> "rptr", skipped |-> TRUE],
                [w |-> "rptr", skipped |-> FALSE], [w |-> "shape"]}
Shapes == CallShapes \cup SelectShapes \cup OtherShapes
Bare == [w |-> "bare"]

\* one IR node of shape w, with path id pid, around the expression x
Wrap(w, pid, x) ==
    CASE w.w = "bare" -> x
      [] w.w = "call" ->
            Set(pid, None, <<>>,
                Call(w.node_kind, w.sql, w.typemod, <<x>>, <<w.ptm>>))
      [] w.w = "select" ->
            Set(pid, None, <<>>,
                SelectStmt(IF w.pos = "result" THEN x ELSE Const,
                           IF w.pos = "where" THEN x ELSE None,
                           IF w.flag = "orderby" THEN <<Const>> ELSE <<>>,
                           IF w.flag = "limit" THEN Const ELSE None,
                           IF w.flag = "offset" THEN Const ELSE None,
                           w.flag = "materialized_sets"))
      [] w.w = "rptr" ->
            Set(IF w.skipped THEN UsingPathId(1) ELSE pid,
                Pointer(x), <<>>, None)
      [] w.w = "shape" -> Set(pid, None, <<x>>, None)

\* expressions around the group binding, of nesting depth at most d, on
\* branch b of the result
RECURSIVE Exprs(_, _)
Exprs(b, d) ==
    IF d = 0 THEN {GroupRef}
    ELSE Exprs(b, d - 1)
         \cup {Wrap(w, ExprPathId(b, d), x) : w \in Shapes,
                                               x \in Exprs(b, d - 1)}

\* two-element results: a tuple, or a two-argument SQL function call
PairShapes ==
    {[w |-> "tuple"]}
    \cup [w : {"call2"}, ptm1 : {SetOfType, SingletonType},
          ptm2 : {SetOfType, SingletonType}]

Pair(w, x, y) ==
    IF w.w = "tuple" THEN Set(ExprPathId(0, 0), None, <<>>, Tuple(<<x, y>>))
    ELSE Set(ExprPathId(0, 0), None, <<>>,
             Call("FunctionCall", TRUE, SingletonType, <<x, y>>,
                  <<w.ptm1, w.ptm2>>))

\* (count(g), g.a) and (array_agg(g), g)
ScenarioC ==
    Pair([w |-> "tuple"], Agg(ExprPathId(1, 1), GroupRef), KeyRef(1))
ScenarioD ==
    Pair([w |-> "tuple"], Agg(ExprPathId(1, 1), GroupRef), GroupRef)

SecondExprs == {GroupRef, KeyRef(1), Agg(ExprPathId(2, 1), GroupRef)}

\* `using`: the keys in the order of the permutation p
Using(p) == [i \in DOMAIN p |->
                [name |-> KeyNames[p[i]],
                 value |-> Set(UsingPathId(p[i]), Pointer(
                               Set(SubjectPathId, None, <<>>, None)),
                               <<>>, None)]]
AllKeys == [i \in Keys |-> i]
Reversed == [i \in Keys |-> MaxKeys + 1 - i]

Ref(i) == ObjectRef(KeyNames[i])

GroupStmt(result, where, orderby, by, using, grouping_binding) ==
    [subject |-> Set(SubjectPathId, None, <<>>, None),
     group_binding |-> GroupRef,
     grouping_binding |-> grouping_binding,
     using |-> using, by |-> by, result |-> result, where |-> where,
     orderby |-> orderby]

GroupingBinding == Set(GroupingBindingPathId, None, <<>>, None)

ClauseExprs == {GroupRef, Const, Agg(ExprPathId(3, 1), GroupRef)}

\* grouping elements
RefAtoms == {Ref(i) : i \in Keys}
IdentLists == {GroupingIdentList(s) : s \in SeqsOf(RefAtoms, 0, MaxArgs)}
NestedLists == {GroupingIdentList(<<l, r>>) :
                    l \in {GroupingIdentList(<<a>>) : a \in RefAtoms},
                    r \in RefAtoms}
Unknown == [kind |-> "Path"]
Atoms == RefAtoms \cup IdentLists \cup NestedLists \cup {Unknown}
OperAtoms == RefAtoms \cup {GroupingIdentList(<<a>>) : a \in RefAtoms}
               \cup {Unknown}
Operations == {GroupingOperation(o, s) :
                  o \in {"rollup", "cube"},
                  s \in SeqsOf(OperAtoms, 1, MaxArgs)}
Simples == {GroupingSimple(a) : a \in Atoms}
SetMembers == {GroupingSimple(a) : a \in RefAtoms}
              \cup {GroupingSimple(GroupingIdentList(<<>>)),
                    GroupingOperation("rollup", <<Ref(1)>>), Unknown}
Sets1 == {GroupingSets(s) : s \in SeqsOf(SetMembers, 1, MaxArgs)}
Sets2 == {GroupingSets(<<x>>) : x \in Sets1}
Elements == Simples \cup Operations \cup Sets1 \cup Sets2 \cup {Unknown}

Bys == {<<e>> : e \in Elements}
       \cup {<<GroupingSimple(a), e>> : a \in RefAtoms, e \in SetMembers}
       \cup {<<GroupingSimple(a), GroupingOperation("cube", <<a>>)>> :
                a \in RefAtoms}

\* the statements explored: they vary the result expression (one chain
\* of nested nodes, or a pair), the FILTER and ORDER BY expressions, or the
\* grouping elements, the order of `using` and the grouping binding
ResultVaries(s) ==
    \E w \in Shapes \cup {Bare}, x \in Exprs(1, MaxDepth - 1) \cup {Const} :
        s = GroupStmt(Wrap(w, ExprPathId(1, MaxDepth), x), None, None,
                      <<GroupingSimple(Ref(1))>>, Using(AllKeys), None)

PairVaries(s) ==
    \E w \in PairShapes, v \in Shapes \cup {Bare}, y \in SecondExprs :
        s = GroupStmt(Pair(w, Wrap(v, ExprPathId(1, 1), GroupRef), y),
                      None, None, <<GroupingSimple(Ref(1))>>,
                      Using(AllKeys), None)

ClausesVary(s) ==
    \E r \in {Const, Agg(ExprPathId(1, 1), GroupRef), ScenarioD},
       w \in {None} \cup ClauseExprs,
       o \in {None} \cup {SortExprs(<<x>>) : x \in ClauseExprs},
       gb \in {None, GroupingBinding} :
        s = GroupStmt(r, w, o, <<GroupingSimple(Ref(1))>>, Using(AllKeys),
                      gb)

GroupingVaries(s) ==
    \E by \in Bys, p \in {AllKeys, Reversed},
       gb \in {None, GroupingBinding} :
        s = GroupStmt(Agg(ExprPathId(1, 1), GroupRef), None, None, by,
                      Using(p), gb)

(***************************************************************************)
(* _compile_group, top to bottom.                                          *)
(***************************************************************************)
GroupRelName == "grouprel"

Init ==
    /\ \/ ResultVaries(stmt)
       \/ PairVaries(stmt)
       \/ ClausesVary(stmt)
       \/ GroupingVaries(stmt)
    /\ pc = "analyze"
    /\ group_uses = {}
    /\ packed = FALSE
    /\ grouprel = NewRel(GroupRelName)
    /\ query = NewRel("query")
    /\ subqueries = [hoisted |-> 0, packed |-> 0, grouping |-> 0]
    /\ levels = << [prev |-> 0, volatility_ref |-> {}],
                   [prev |-> ParentCtx, volatility_ref |-> {}] >>
    /\ calls = <<>>
    /\ err = None

\* lines 264-271
to_skip(s) == {s.using[i].value.path_id : i \in DOMAIN s.using}

sightings(s) ==
    FindAggregatingUses(s.group_binding.path_id, to_skip(s), s.result)

Analyze ==
    /\ pc = "analyze"
    /\ group_uses' = sightings(stmt)
    /\ pc' = "subject"
    /\ UNCHANGED <<stmt, packed, grouprel, query, subqueries, levels, calls,
                   err>>

\* lines 277-312: the subject is compiled in its own sub-relation, which is
\* included in the group relation under the group binding's and the
\* subject's path ids without touching the mask; then the `using` values
\* are compiled in the group scope
subj_rvar == [kind |-> "RangeSubselect", subquery |-> "subjrel",
              lateral |-> TRUE]

CompileSubject ==
    /\ pc = "subject"
    /\ levels' = ctx_new(ctx_new(levels, Ctx), Len(levels) + 1)
    /\ calls' = calls
            \o << [fn |-> "dispatch.visit", arg |-> stmt.subject.path_id,
                   ctx |-> Len(levels) + 2] >>
            \o [i \in DOMAIN stmt.using |->
                    [fn |-> "dispatch.visit",
                     arg |-> stmt.using[i].value.path_id,
                     ctx |-> Len(levels) + 1]]
    /\ grouprel' =
        include_rvar(
            include_rvar(grouprel, subj_rvar, stmt.group_binding.path_id,
                         "normal", FALSE),
            subj_rvar, stmt.subject.path_id, "normal", FALSE)
    /\ pc' = "hoist"
    /\ UNCHANGED <<stmt, group_uses, packed, query, subqueries, err>>

\* lines 317-334: one sub-query per sighting that is not the sentinel
hoisted_rel(group_use) ==
    [kind |-> "agg_expr_inner", ir_set |-> group_use.path_id,
     for_group_by |-> TRUE]

RECURSIVE hoist_all(_, _)

\* the loop registering every aggregate under the group binding's path id
hoist_all_under_binding(acc, uses) ==
    IF uses = {} THEN acc
    ELSE LET group_use == CHOOSE u \in uses : TRUE
         IN hoist_all(
                IF group_use = None THEN acc
                ELSE [rel |-> put_path_var(acc.rel, GroupBindingPathId,
                                           hoisted_rel(group_use), "value",
                                           "normal"),
                      n |-> acc.n + 1],
                uses \ {group_use})

hoist_all(acc, uses) ==
    IF uses = {} THEN acc
    ELSE LET group_use == CHOOSE u \in uses : TRUE
         IN hoist_all(
                IF group_use = None THEN acc
                ELSE [rel |-> put_path_var(acc.rel, group_use.path_id,
                                           hoisted_rel(group_use), "value",
                                           "normal"),
                      n |-> acc.n + 1],
                uses \ {group_use})

Hoist ==
    /\ pc = "hoist"
    /\ LET done == hoist_all([rel |-> grouprel, n |-> 0], group_uses)
       IN /\ grouprel' = done.rel
          /\ subqueries' = [subqueries EXCEPT !.hoisted = done.n]
          /\ levels' = IF done.n > 0 THEN ctx_new(levels, Len(levels) - 1)
                       ELSE levels
    /\ pc' = "pack"
    /\ UNCHANGED <<stmt, group_uses, packed, query, calls, err>>

\* lines 336-369
mat_qry(s) ==
    [kind |-> "set_to_array", path_id |-> s.group_binding.path_id,
     for_group_by |-> TRUE,
     query |-> [kind |-> "set_as_subquery",
                ir_set |-> s.group_binding.path_id, as_value |-> TRUE],
     packed_output |-> [kind |-> "ColumnRef", name |-> "v",
                        is_packed_multi |-> TRUE]]

needs_packing(uses) == None \in uses

Pack ==
    /\ pc = "pack"
    /\ IF needs_packing(group_uses)
       THEN /\ packed' = TRUE
            /\ levels' = ctx_new(levels, Ctx)
            /\ subqueries' = [subqueries EXCEPT !.packed = @ + 1]
            /\ grouprel' = put_path_var(grouprel,
                                        stmt.group_binding.path_id,
                                        mat_qry(stmt), "value", "packed")
       ELSE /\ packed' = FALSE
            /\ UNCHANGED <<levels, subqueries, grouprel>>
    /\ pc' = "grouping_binding"
    /\ UNCHANGED <<stmt, group_uses, query, calls, err>>

\* lines 249-256 and 371-372
_compile_grouping_binding(rel, s) ==
    LET value == _compile_grouping_value(s, rel.name)
    IN IF Raised(value) THEN value
       ELSE put_path_var(rel, s.grouping_binding.path_id, value, "value",
                         "normal")

is_subquery(value) == value.kind = "pgast.SelectStmt"

CompileGroupingBinding ==
    /\ pc = "grouping_binding"
    /\ IF stmt.grouping_binding # None
       THEN LET bound == _compile_grouping_binding(grouprel, stmt)
            IN IF Raised(bound)
               THEN /\ err' = bound
                    /\ pc' = "raised"
                    /\ UNCHANGED <<grouprel, subqueries>>
               ELSE /\ grouprel' = bound
                    /\ subqueries' =
                        [subqueries EXCEPT !.grouping =
                            IF \E v \in Lookup(bound, "path_namespace",
                                               stmt.grouping_binding.path_id, "value") :
                                   is_subquery(v)
                            THEN @ + 1 ELSE @]
                    /\ pc' = "group_clause"
                    /\ err' = err
       ELSE /\ pc' = "group_clause"
            /\ UNCHANGED <<grouprel, subqueries, err>>
    /\ UNCHANGED <<stmt, group_uses, packed, query, levels, calls>>

\* lines 374-376
group_clause(s, rel) ==
    [i \in DOMAIN s.by |-> compile_grouping_el(s.by[i], s.using, rel)]

CompileGroupClause ==
    /\ pc = "group_clause"
    /\ LET clause == group_clause(stmt, grouprel.name)
       IN IF AnyRaised(clause)
          THEN /\ err' = FirstRaised(clause)
               /\ pc' = "raised"
               /\ grouprel' = grouprel
          ELSE /\ grouprel' = [grouprel EXCEPT !.group_clause = clause]
               /\ pc' = "attach"
               /\ err' = err
    /\ UNCHANGED <<stmt, group_uses, packed, query, subqueries, levels,
                   calls>>

\* lines 378-389
attach(q, group_rvar, s, is_packed) ==
    IF is_packed
    THEN include_rvar(q, group_rvar, s.group_binding.path_id, "packed",
                      FALSE)
    ELSE rel_join(q, group_rvar)

Attach ==
    /\ pc = "attach"
    /\ query' = attach(query, rvar_for_rel(grouprel), stmt, packed)
    /\ pc' = "register"
    /\ UNCHANGED <<stmt, group_uses, packed, grouprel, subqueries, levels,
                   calls, err>>

\* lines 391-398: [*group_uses, *stmt.using.values(), stmt.grouping_binding]
RECURSIVE register_all(_, _, _)
register_all(q, group_rvar, uses) ==
    IF uses = {} THEN q
    ELSE LET group_use == CHOOSE u \in uses : TRUE
         IN register_all(
                IF group_use = None THEN q
                ELSE put_path_rvar(q, group_use.path_id, group_rvar,
                                   "value", "normal"),
                group_rvar, uses \ {group_use})

\* the list without the `using` values
registered_without_using(s, uses) == uses \cup {s.grouping_binding}

registered(s, uses) ==
    uses \cup {s.using[i].value : i \in DOMAIN s.using}
         \cup {s.grouping_binding}

Register ==
    /\ pc = "register"
    /\ query' = register_all(query, rvar_for_rel(grouprel),
                             registered(stmt, group_uses))
    /\ pc' = "materialized"
    /\ UNCHANGED <<stmt, group_uses, packed, grouprel, subqueries, levels,
                   calls, err>>

\* line 401
CompileMaterialized ==
    /\ pc = "materialized"
    /\ calls' = Append(calls, [fn |-> "compile_materialized_exprs",
                               arg |-> query.name, ctx |-> Ctx])
    /\ pc' = "output"
    /\ UNCHANGED <<stmt, group_uses, packed, grouprel, query, subqueries,
                   levels, err>>

\* line 404
CompileOutput ==
    /\ pc = "output"
    /\ calls' = Append(calls, [fn |-> "compile_output",
                               arg |-> stmt.result.path_id, ctx |-> Ctx])
    /\ query' = [query EXCEPT !.target_list =
                    <<[kind |-> "output", of |-> stmt.result.path_id]>>]
    /\ pc' = "volatility"
    /\ UNCHANGED <<stmt, group_uses, packed, grouprel, subqueries, levels,
                   err>>

\* lines 407-410
SetupVolatility ==
    /\ pc = "volatility"
    /\ LET opened == ctx_new(levels, Ctx)
           ictx == Len(opened)
       IN /\ levels' = setup_iterator_volatility(opened, stmt.result, ictx)
          /\ calls' = Append(calls, [fn |-> "setup_iterator_volatility",
                                     arg |-> stmt.result.path_id,
                                     ctx |-> ictx])
    /\ pc' = "filter"
    /\ UNCHANGED <<stmt, group_uses, packed, grouprel, query, subqueries,
                   err>>

\* lines 412-417: the context level the FILTER clause is compiled with
filter_ctx(lv) == Ctx

CompileFilter ==
    /\ pc = "filter"
    /\ IF stmt.where # None
       THEN /\ calls' = Append(calls, [fn |-> "compile_filter_clause",
                                       arg |-> stmt.where.path_id,
                                       ctx |-> filter_ctx(levels)])
            /\ query' = [query EXCEPT !.where_clause =
                            Append(@, [kind |-> "filter",
                                       of |-> stmt.where.path_id])]
       ELSE UNCHANGED <<calls, query>>
    /\ pc' = "orderby"
    /\ UNCHANGED <<stmt, group_uses, packed, grouprel, subqueries, levels,
                   err>>

\* lines 419-423: the ORDER BY clause gets a fresh child of ctx
orderby_ctx(lv) == ctx_new(lv, Ctx)

CompileOrderBy ==
    /\ pc = "orderby"
    /\ IF stmt.orderby # None
       THEN /\ levels' = orderby_ctx(levels)
            /\ calls' = Append(calls, [fn |-> "compile_orderby_clause",
                                       arg |-> stmt.orderby.exprs[1].path_id,
                                       ctx |-> Len(levels')])
            /\ query' = [query EXCEPT !.sort_clause =
                            [i \in DOMAIN stmt.orderby.exprs |->
                                [kind |-> "sort",
                                 of |-> stmt.orderby.exprs[i].path_id]]]
       ELSE UNCHANGED <<levels, calls, query>>
    /\ pc' = "done"
    /\ UNCHANGED <<stmt, group_uses, packed, grouprel, subqueries, err>>

Next ==
    \/ Analyze
    \/ CompileSubject
    \/ Hoist
    \/ Pack
    \/ CompileGroupingBinding
    \/ CompileGroupClause
    \/ Attach
    \/ Register
    \/ CompileMaterialized
    \/ CompileOutput
    \/ SetupVolatility
    \/ CompileFilter
    \/ CompileOrderBy

Spec == Init /\ [][Next]_vars

(***************************************************************************)
(* Occurrences of the group binding, described without the visitor: each   *)
(* occurrence is the sequence of frames (enclosing Sets, call arguments    *)
(* and nested statements) from the root of the expression down to it.      *)
(***************************************************************************)
SetFrame(node) ==
    [f |-> "set", path_id |-> node.path_id, sql |-> FALSE, setof |-> FALSE,
     returns_set |-> FALSE, reset |-> FALSE]
ArgFrame(ir_set, i) ==
    [f |-> "arg", path_id |-> ir_set.path_id,
     sql |-> ir_set.expr.node_kind = "FunctionCall"
             /\ ir_set.expr.func_sql_function,
     setof |-> ir_set.expr.params_typemods[i] = SetOfType,
     returns_set |-> ir_set.expr.typemod = SetOfType, reset |-> FALSE]
StmtFrame(node) ==
    [f |-> "stmt", path_id |-> ConstPathId, sql |-> FALSE, setof |-> FALSE,
     returns_set |-> FALSE,
     reset |-> (node.orderby # <<>> \/ node.limit # None
                \/ node.offset # None \/ node.materialized_sets)]

Under(frames, chains) == {frames \o c : c \in chains}

RECURSIVE Occs(_)
Occs(node) ==
    CASE node.kind = "Set" ->
            IF node.path_id = GroupBindingPathId THEN {<<>>}
            ELSE Under(<<SetFrame(node)>>,
                    Occs(node.rptr)
                    \cup UNION {Occs(node.shape[i]) : i \in DOMAIN node.shape}
                    \cup (IF node.expr.kind = "Call"
                          THEN UNION {Under(<<ArgFrame(node, i)>>,
                                            Occs(node.expr.args[i])) :
                                        i \in DOMAIN node.expr.args}
                          ELSE Occs(node.expr)))
      [] node.kind = "Pointer" -> Occs(node.source)
      [] node.kind = "Tuple" ->
            UNION {Occs(node.elements[i]) : i \in DOMAIN node.elements}
      [] node.kind = "SelectStmt" ->
            Under(<<StmtFrame(node)>>,
                  Occs(node.result) \cup Occs(node.where)
                  \cup UNION {Occs(node.orderby[i]) :
                                i \in DOMAIN node.orderby}
                  \cup Occs(node.limit) \cup Occs(node.offset))
      [] OTHER -> {}

\* no enclosing call
IsBare(c) == \A i \in DOMAIN c : c[i].f # "arg"
\* under a nested SelectStmt with its own orderby, limit, offset or
\* materialized_sets
IsResetStmt(fr) == fr.f = "stmt" /\ fr.reset
\* inside a SET OF argument of a call backed by a SQL function
IsSqlSetOfArg(fr) == fr.f = "arg" /\ fr.sql /\ fr.setof
\* ... which does not itself return SET OF
IsAggregatingArg(fr) == IsSqlSetOfArg(fr) /\ ~fr.returns_set
IsSetReturningArg(fr) == fr.f = "arg" /\ fr.returns_set
\* not inside a Set whose path id is in the skip-set
IsVisible(c, skip) ==
    \A i \in DOMAIN c : ~(c[i].f = "set" /\ c[i].path_id \in skip)

Analyzed == pc # "analyze"
PackDecided == pc \notin {"analyze", "subject", "hoist", "pack"}

PackedVars ==
    Lookup(grouprel, "packed_path_namespace", stmt.group_binding.path_id,
           "value")

OnePackedMaterialization ==
    /\ packed
    /\ subqueries.packed = 1
    /\ PackedVars = {mat_qry(stmt)}

NoPackedMaterialization ==
    /\ ~packed
    /\ None \notin group_uses
    /\ subqueries.packed = 0
    /\ PackedVars = {}

(***************************************************************************)
(* C1.  As stated: if some occurrence of the group binding in the result   *)
(* is bare (no enclosing call) or lies under a nested SelectStmt with its  *)
(* own orderby, limit, offset or materialized_sets, then packed is true    *)
(* and exactly one packed array materialization is registered under the    *)
(* group binding's path id.                                                *)
(***************************************************************************)
C1_AsStated ==
    (PackDecided /\ \E c \in Occs(stmt.result) :
                        IsBare(c) \/ \E i \in DOMAIN c : IsResetStmt(c[i]))
        => OnePackedMaterialization

\* C1, amended: the same conclusion for an occurrence that is not inside a
\* skip-set Set and that is bare, or lies under such a nested SelectStmt
\* with no SET OF argument of a SQL-function call that does not return
\* SET OF between that statement and the occurrence.
C1_Ungrouped(c) ==
    /\ IsVisible(c, to_skip(stmt))
    /\ \/ IsBare(c)
       \/ \E i \in DOMAIN c :
            /\ IsResetStmt(c[i])
            /\ \A j \in DOMAIN c : j > i => ~IsAggregatingArg(c[j])

C1_PackedOnce ==
    (PackDecided /\ \E c \in Occs(stmt.result) : C1_Ungrouped(c))
        => OnePackedMaterialization

C1_Witness ==
    /\ pc = "done"
    /\ Cardinality({c \in Occs(stmt.result) : C1_Ungrouped(c)}) >= 2
    /\ \E c \in Occs(stmt.result) :
         C1_Ungrouped(c) /\ \E i \in DOMAIN c : IsResetStmt(c[i])
    /\ OnePackedMaterialization

(***************************************************************************)
(* C2.  As stated: if every occurrence of the group binding in the result  *)
(* lies inside a SET OF argument of a call backed by a SQL function, the   *)
(* sentinel is never recorded, packed is false and no packed array         *)
(* materialization is produced.                                            *)
(***************************************************************************)
C2_AsStated ==
    (PackDecided /\ \A c \in Occs(stmt.result) :
                        \E i \in DOMAIN c : IsSqlSetOfArg(c[i]))
        => NoPackedMaterialization

\* C2, amended: the same conclusion when every occurrence lies inside a
\* SET OF argument of a SQL-function call that does not itself return
\* SET OF, with no argument of a set-returning call and no nested
\* SelectStmt with orderby, limit, offset or materialized_sets between that
\* argument and the occurrence.
C2_Aggregated(c) ==
    \E i \in DOMAIN c :
        /\ IsAggregatingArg(c[i])
        /\ \A j \in DOMAIN c :
             j > i => ~IsSetReturningArg(c[j]) /\ ~IsResetStmt(c[j])

C2_NeverPacked ==
    (PackDecided /\ \A c \in Occs(stmt.result) : C2_Aggregated(c))
        => NoPackedMaterialization

C2_Witness ==
    /\ pc = "done"
    /\ \E c \in Occs(stmt.result) : Len(c) > 2
    /\ \A c \in Occs(stmt.result) : C2_Aggregated(c)
    /\ NoPackedMaterialization
    /\ subqueries.hoisted = 1

(***************************************************************************)
(* C7.  The visitor does not descend into a Set whose path id is in the    *)
(* skip-set: when every occurrence of the group binding is inside such a   *)
(* Set there is no sighting, and for (count(g), g.a) the sightings are     *)
(* exactly the count(...) Set and packed is false.                         *)
(***************************************************************************)
C7_SkipSet ==
    Analyzed =>
        /\ (\A c \in Occs(stmt.result) : ~IsVisible(c, to_skip(stmt)))
                => group_uses = {}
        /\ stmt.result = ScenarioC =>
                /\ group_uses = {Agg(ExprPathId(1, 1), GroupRef)}
                /\ PackDecided => NoPackedMaterialization

C7_Witness ==
    /\ pc = "done"
    /\ stmt.result = ScenarioC
    /\ group_uses = {Agg(ExprPathId(1, 1), GroupRef)}
    /\ ~packed

(***************************************************************************)
(* C8.  The contexts _compile_group gets from the analyzer cover the       *)
(* occurrences of the group binding in the where and order-by expressions  *)
(* too: a bare occurrence there makes packed true, and an aggregate around *)
(* an occurrence there is hoisted.                                         *)
(***************************************************************************)
ClauseRoots ==
    (IF stmt.where # None THEN {stmt.where} ELSE {})
    \cup (IF stmt.orderby # None
          THEN {stmt.orderby.exprs[i] : i \in DOMAIN stmt.orderby.exprs}
          ELSE {})

\* C8: occurrences in the where and order-by expressions are covered by the
\* analysis.
C8_ClausesCovered ==
    PackDecided =>
        \A e \in ClauseRoots :
            \A c \in Occs(e) :
                /\ IsBare(c) => packed
                /\ \A i \in DOMAIN c :
                     IsAggregatingArg(c[i]) =>
                        Lookup(grouprel, "path_namespace", c[i].path_id,
                               "value") # {}

(***************************************************************************)
(* The grouping value, read back as the target engine evaluates it.        *)
(***************************************************************************)
\* the decimal digits ds as a number
RECURSIVE ParseInt(_)
ParseInt(ds) ==
    IF ds = <<>> THEN 0
    ELSE 10 * ParseInt(SubSeq(ds, 1, Len(ds) - 1)) + ds[Len(ds)]

\* a & b on naturals
RECURSIVE BitAnd(_, _)
BitAnd(a, b) ==
    IF a = 0 \/ b = 0 THEN 0
    ELSE 2 * BitAnd(a \div 2, b \div 2) + (a % 2) * (b % 2)

\* grouping(e1, ..., en) for a row of the grouping set that includes the
\* arguments at the positions in S: bit n - i is set when ei is not
\* grouped on
RECURSIVE Indicator(_, _, _)
Indicator(n, S, i) ==
    IF i > n THEN 0
    ELSE (IF i \in S THEN 0 ELSE 2 ^ (n - i)) + Indicator(n, S, i + 1)

\* (CASE (g & mask) WHEN v THEN result ELSE defresult END)
EvalCase(e, g) ==
    IF BitAnd(g, ParseInt(e.arg.rexpr.expr)) = ParseInt(e.args[1].expr.expr)
    THEN e.args[1].result
    ELSE e.defresult

\* array_remove(ARRAY[...], NULL), the values left
RECURSIVE ArrayRemoveNull(_)
ArrayRemoveNull(xs) ==
    IF xs = <<>> THEN <<>>
    ELSE (IF Head(xs) = NullConstant THEN <<>> ELSE <<Head(xs).val>>)
         \o ArrayRemoveNull(Tail(xs))

EvalGroupingValue(q, S) ==
    LET n == Len(q.from_clause[1].subquery.target_list[1].val.args)
        els == q.target_list[1].val.args[1].elements
    IN ArrayRemoveNull([i \in DOMAIN els |->
                            EvalCase(els[i], Indicator(n, S, 1))])

\* the alias names without their '~' suffix
KeyBases == << <<"a">>, <<"b">>, <<"c">>, <<"d">>, <<"e">> >>
KeyOf(name) == CHOOSE i \in DOMAIN KeyNames : KeyNames[i] = name
BaseOf(name) == KeyBases[KeyOf(name)]

\* the names among ns at the positions in S, in order
RECURSIVE BasesAt(_, _, _)
BasesAt(ns, S, i) ==
    IF i > Len(ns) THEN <<>>
    ELSE (IF i \in S THEN <<BaseOf(ns[i])>> ELSE <<>>)
         \o BasesAt(ns, S, i + 1)

\* the distinct keys the `by` elements reference, in the order of `using`
UsedKeys ==
    ordered_names(stmt.using,
                  UNION {el_names(stmt.by[i]) : i \in DOMAIN stmt.by})

GroupingVars ==
    Lookup(grouprel, "path_namespace", GroupingBindingPathId, "value")

GroupingBound ==
    /\ pc \notin {"analyze", "subject", "hoist", "pack", "grouping_binding",
                  "raised"}
    /\ stmt.grouping_binding # None

GroupClauseSet ==
    pc \notin {"analyze", "subject", "hoist", "pack", "grouping_binding",
               "group_clause", "raised"}

(***************************************************************************)
(* C3.  With N >= 2 distinct grouping keys, the key at 0-based position i  *)
(* is tested against mask 1 << (N-1-i), at the position its value is       *)
(* passed to grouping(); its conditional yields its name exactly when      *)
(* (indicator & mask) = 0, and the array, nulls removed, holds exactly the *)
(* names of the keys whose indicator bit is clear.  For 2 keys the masks   *)
(* are [2, 1].                                                             *)
(***************************************************************************)
C3_MaskDecode ==
    (GroupingBound /\ Len(UsedKeys) >= 2) =>
        \E q \in GroupingVars :
            LET n == Len(UsedKeys)
                args == q.from_clause[1].subquery.target_list[1].val.args
                els == q.target_list[1].val.args[1].elements
            IN /\ GroupingVars = {q}
               /\ Len(args) = n /\ Len(els) = n
               /\ \A i \in 1..n :
                    /\ args[i] = get_path_var(
                                    GroupRelName,
                                    UsingPathId(KeyOf(UsedKeys[i])), "value")
                    /\ ParseInt(els[i].arg.rexpr.expr) = 2 ^ (n - i)
                    /\ els[i].args[1].result.val = BaseOf(UsedKeys[i])
                    /\ \A g \in 0..(2 ^ n - 1) :
                         EvalCase(els[i], g) =
                            IF BitAnd(g, 2 ^ (n - i)) = 0
                            THEN StringConstant(BaseOf(UsedKeys[i]))
                            ELSE NullConstant
               /\ \A S \in SUBSET (1..n) :
                    EvalGroupingValue(q, S) = BasesAt(UsedKeys, S, 1)
               /\ n = 2 => <<ParseInt(els[1].arg.rexpr.expr),
                              ParseInt(els[2].arg.rexpr.expr)>> = <<2, 1>>

C3_Witness ==
    /\ pc = "done"
    /\ stmt.grouping_binding # None
    /\ Len(UsedKeys) = MaxKeys
    /\ stmt.using = Using(Reversed)
    /\ \E q \in GroupingVars :
         EvalGroupingValue(q, {1}) = <<BaseOf(UsedKeys[1])>>

(***************************************************************************)
(* C4.  As stated: when the `by` elements reference exactly one distinct   *)
(* key, the grouping value is a constant one-element array naming that     *)
(* key, no grouping() call and no sub-query is emitted even when a         *)
(* grouping binding is requested, and the grouping clause has a single     *)
(* expression, the value of that key.                                      *)
(***************************************************************************)
C4_ConstantArray ==
    /\ subqueries.grouping = 0
    /\ stmt.grouping_binding # None =>
         GroupingVars = {ArrayExpr(<<StringConstant(BaseOf(UsedKeys[1]))>>)}

C4_AsStated ==
    (GroupClauseSet /\ Len(UsedKeys) = 1) =>
        /\ C4_ConstantArray
        /\ grouprel.group_clause =
             <<get_path_var(GroupRelName, UsingPathId(KeyOf(UsedKeys[1])),
                            "value")>>

\* C4, amended: the constant array and the absence of a grouping() call
\* and sub-query hold as stated; the grouping clause has one compiled
\* element per `by` element, and is the single value expression of the key
\* when `by` is that key alone.
C4_SingleKey ==
    /\ (GroupingBound /\ Len(UsedKeys) = 1) => C4_ConstantArray
    /\ (GroupClauseSet /\ Len(UsedKeys) = 1) =>
         /\ Len(grouprel.group_clause) = Len(stmt.by)
         /\ stmt.by = <<GroupingSimple(ObjectRef(UsedKeys[1]))>> =>
              grouprel.group_clause =
                <<get_path_var(GroupRelName,
                               UsingPathId(KeyOf(UsedKeys[1])), "value")>>

C4_Witness ==
    /\ pc = "done"
    /\ stmt.grouping_binding # None
    /\ stmt.by = <<GroupingSimple(Ref(2))>>
    /\ GroupingVars = {ArrayExpr(<<StringConstant(<<"b">>)>>)}
    /\ Len(grouprel.group_clause) = 1

(***************************************************************************)
(* C5.  compile_grouping_el returns a tree isomorphic to its input: each   *)
(* operation, identifier list and grouping-sets element becomes one        *)
(* grouping-operation node with the same operator tag and the same         *)
(* children in the same order, each atom becomes the value reference of    *)
(* using[name], and any other shape raises an assertion error.             *)
(***************************************************************************)
RECURSIVE IsoAtom(_, _)
IsoAtom(el, out) ==
    IF el.kind = "ObjectRef"
    THEN out = get_path_var(GroupRelName, UsingPathId(KeyOf(el.name)),
                            "value")
    ELSE /\ el.kind = "GroupingIdentList"
         /\ out.kind = "pgast.GroupingOperation"
         /\ out.operation = NoOperation
         /\ DOMAIN out.args = DOMAIN el.elements
         /\ \A i \in DOMAIN el.elements :
              IsoAtom(el.elements[i], out.args[i])

RECURSIVE IsoEl(_, _)
IsoEl(el, out) ==
    CASE el.kind = "GroupingSets" ->
            /\ out.kind = "pgast.GroupingOperation"
            /\ out.operation = "GROUPING SETS"
            /\ DOMAIN out.args = DOMAIN el.sets
            /\ \A i \in DOMAIN el.sets : IsoEl(el.sets[i], out.args[i])
      [] el.kind = "GroupingOperation" ->
            /\ out.kind = "pgast.GroupingOperation"
            /\ out.operation = el.oper
            /\ DOMAIN out.args = DOMAIN el.elements
            /\ \A i \in DOMAIN el.elements :
                 IsoAtom(el.elements[i], out.args[i])
      [] el.kind = "GroupingSimple" -> IsoAtom(el.element, out)
      [] OTHER -> FALSE

\* an element holding a node that is no grouping element or atom
RECURSIVE MalformedAtom(_)
MalformedAtom(el) ==
    IF el.kind = "GroupingIdentList"
    THEN \E i \in DOMAIN el.elements : MalformedAtom(el.elements[i])
    ELSE el.kind # "ObjectRef"

RECURSIVE MalformedEl(_)
MalformedEl(el) ==
    CASE el.kind = "GroupingSets" ->
            \E i \in DOMAIN el.sets : MalformedEl(el.sets[i])
      [] el.kind = "GroupingOperation" ->
            \E i \in DOMAIN el.elements : MalformedAtom(el.elements[i])
      [] el.kind = "GroupingSimple" -> MalformedAtom(el.element)
      [] OTHER -> TRUE

\* C5: the compiled grouping clause is isomorphic to `by`, and a malformed
\* `by` raises AssertionError before any clause is set.
C5_Isomorphic ==
    /\ GroupClauseSet =>
         /\ DOMAIN grouprel.group_clause = DOMAIN stmt.by
         /\ \A i \in DOMAIN stmt.by :
              IsoEl(stmt.by[i], grouprel.group_clause[i])
    /\ (\E i \in DOMAIN stmt.by : MalformedEl(stmt.by[i])) =>
         /\ ~GroupClauseSet
         /\ grouprel.group_clause = <<>>
         /\ pc \notin {"analyze", "subject", "hoist", "pack",
                       "grouping_binding", "group_clause"}
              => pc = "raised" /\ err = AssertionError

C5_Witness ==
    /\ pc = "done"
    /\ \E i \in DOMAIN stmt.by :
         /\ stmt.by[i].kind = "GroupingSets"
         /\ \E j \in DOMAIN stmt.by[i].sets :
              stmt.by[i].sets[j].kind = "GroupingSets"
         /\ IsoEl(stmt.by[i], grouprel.group_clause[i])

(***************************************************************************)
(* C6.  When the group binding occurs both inside an aggregate call and    *)
(* bare, the sightings hold the aggregate's Set and the sentinel; there is *)
(* one hoisted sub-query per non-sentinel context, registered in the group *)
(* relation under that Set's path id, and one packed materialization       *)
(* registered under the group binding's path id with flavor 'packed';      *)
(* neither registration overwrites the other, and both resolve from the    *)
(* parent query when the result is compiled.                               *)
(***************************************************************************)
group_rvar == rvar_for_rel(grouprel)
Hoisted == {u \in group_uses : u # None}

\* C6: the hoisted aggregates and the packed materialization are both
\* registered, under different keys, and both resolve from the parent query.
C6_BothResolvable ==
    /\ (Analyzed /\ stmt.result = ScenarioD) =>
            group_uses = {Agg(ExprPathId(1, 1), GroupRef), None}
    /\ (PackDecided /\ None \in group_uses /\ Hoisted # {}) =>
         /\ subqueries.hoisted = Cardinality(Hoisted)
         /\ \A u \in Hoisted :
              Lookup(grouprel, "path_namespace", u.path_id, "value")
                = {hoisted_rel(u)}
         /\ OnePackedMaterialization
         /\ (\E i \in DOMAIN calls : calls[i].fn = "compile_output") =>
              /\ \A u \in Hoisted :
                   Lookup(query, "path_rvar_map", u.path_id, "value")
                     = {group_rvar}
              /\ Lookup(query, "packed_path_rvar_map",
                        stmt.group_binding.path_id, "value") = {group_rvar}

C6_Witness ==
    /\ pc = "done"
    /\ stmt.result = ScenarioD
    /\ group_uses = {Agg(ExprPathId(1, 1), GroupRef), None}
    /\ subqueries.hoisted = 1
    /\ OnePackedMaterialization

(***************************************************************************)
(* C9.  The delegated steps run in the order materialized expressions,     *)
(* result, filter, order-by; the volatility reference for the result is    *)
(* set up before the filter and order-by clauses are compiled and is       *)
(* visible in the context level each of the two is compiled with.          *)
(***************************************************************************)
Position(fn) ==
    IF \E i \in DOMAIN calls : calls[i].fn = fn
    THEN CHOOSE i \in DOMAIN calls : calls[i].fn = fn
    ELSE 0

Ordered(first, second) ==
    (Position(first) # 0 /\ Position(second) # 0)
        => Position(first) < Position(second)

C9_DelegationOrder ==
    /\ Ordered("compile_materialized_exprs", "compile_output")
    /\ Ordered("compile_output", "setup_iterator_volatility")
    /\ Ordered("setup_iterator_volatility", "compile_filter_clause")
    /\ Ordered("setup_iterator_volatility", "compile_orderby_clause")
    /\ Ordered("compile_filter_clause", "compile_orderby_clause")

\* C9: the delegation order holds and the result's volatility reference is
\* visible in the level each of the filter and order-by clauses is compiled
\* with.
C9_VolatilityVisible ==
    /\ C9_DelegationOrder
    /\ \A i \in DOMAIN calls :
         calls[i].fn \in {"compile_filter_clause", "compile_orderby_clause"}
            => stmt.result.path_id \in levels[calls[i].ctx].volatility_ref

(***************************************************************************)
(* C10.  Before materialized expressions, the result, the filter or the    *)
(* order-by are compiled, the group relation is attached to the parent     *)
(* query (a packed-flavor inclusion that leaves the mask alone when packed,*)
(* an ordinary join otherwise) and the path id of every hoisted aggregate, *)
(* every `using` value and the grouping binding is registered in the       *)
(* parent query against the group relation's range variable; the sentinel  *)
(* is never registered.                                                    *)
(***************************************************************************)
Delegated ==
    \E i \in DOMAIN calls :
        calls[i].fn \in {"compile_materialized_exprs", "compile_output",
                         "compile_filter_clause", "compile_orderby_clause"}

RegisteredPathIds ==
    {u.path_id : u \in Hoisted}
    \cup {stmt.using[i].value.path_id : i \in DOMAIN stmt.using}
    \cup (IF stmt.grouping_binding # None
          THEN {stmt.grouping_binding.path_id} ELSE {})

\* C10: once any of the four delegated compilations has been invoked, the
\* group relation is attached and every path id is registered.
C10_AttachedAndRegistered ==
    Delegated =>
        /\ IF packed
           THEN /\ query.from_clause
                     = <<[rvar |-> group_rvar, via |-> "include"]>>
                /\ Lookup(query, "packed_path_rvar_map",
                          stmt.group_binding.path_id, "value") = {group_rvar}
                /\ stmt.group_binding.path_id \notin query.path_scope
           ELSE /\ query.from_clause
                     = <<[rvar |-> group_rvar, via |-> "join"]>>
                /\ Lookup(query, "packed_path_rvar_map",
                          stmt.group_binding.path_id, "value") = {}
        /\ \A p \in RegisteredPathIds :
             Lookup(query, "path_rvar_map", p, "value") = {group_rvar}
        /\ {b.key[2] : b \in {c \in query.registry :
                                c.key[1] = "path_rvar_map"}}
             = RegisteredPathIds

C10_Witness ==
    /\ pc = "done"
    /\ packed
    /\ Hoisted # {}
    /\ stmt.grouping_binding # None
    /\ stmt.where # None /\ stmt.orderby # None
    /\ Len(calls) >= 4

====
